---- MODULE Spec2Model ----
(***************************************************************************)
(* Metering and billing core of the VPS reselling dashboard.               *)
(*                                                                         *)
(*   server/routes.ts    hourly billing job, provisioning and deposit      *)
(*                       request handlers                                  *)
(*   server/storage.ts   DatabaseStorage (src/unnamed/part_000)            *)
(*   server/bandwidth    getServerBandwidth, calculateBandwidthOverages,   *)
(*                       processBandwidthOverage (src/unnamed/part_002)    *)
(*                                                                         *)
(* Every `await` of a handler is one step of the model, so handlers        *)
(* interleave exactly where the Node.js event loop can interleave them.    *)
(* Money is integer cents, as in the users.balance column.                 *)
(***************************************************************************)
EXTENDS Integers, Sequences, FiniteSets, TLC

\* ------------------------------------------------------------------ bounds
NumUsers == 2
MaxServers == 3
MaxJobs == 2
MaxTicks == 2
MaxReqs == 2
\* The calendar, shrunk: days in a month, instants told apart within a day
\* (the first is midnight), and the last instant the clock reaches.
MonthDays == 2
InstantsPerDay == 2
MaxTime == 7
MaxSamples == 2
MaxOvgRuns == 2
\* Largest page number and page size a listing asks for.
MaxPage == 2
MaxPageSize == 1
MaxTickets == 2
MaxMessages == 3

\* ------------------------------------------------------- program constants
\* routes.ts:35  `user.balance < 100`
MinHourlyBalance == 100
\* routes.ts:43  `updateUserBalance(server.userId, -100)`
HourlyCharge == 100
\* routes.ts:163 `const hourlyCost = 1` (dollars)
ServerHourlyCost == 1
\* routes.ts:19  COSTS.storage.baseRate = 0.00014 dollars, in 1/100000 dollar
BaseRateE5 == 14
\* routes.ts:20  COSTS.storage.markup = 0.009 dollars, in 1/100000 dollar
MarkupE5 == 900
\* routes.ts:21  COSTS.storage.maxSize
MaxVolumeSize == 1000

Users == 1..NumUsers
\* A userId with no row in the users table: getUser returns undefined for it.
GhostUser == NumUsers + 1
ServerIds == 1..(MaxServers + MaxReqs)
JobIds == 1..MaxJobs
ReqIds == 1..MaxReqs
InitBalances == {0, 50, 100, 250}
Sizes == {"s-1vcpu-1gb", "s-1vcpu-2gb", "s-9vcpu-unknown"}
\* Volume sizes requested, in GB.  (size * 0.914 is never at .5 for these, so
\* the binary rounding of the floating point product cannot change the cents.)
VolumeSizes == {50, 100}
\* Amounts of captured PayPal orders, in dollars (the deposit minimum is 5).
DepositDollars == {5}
OrderIds == {"ORDER-A"}
\* The account whose session the concurrent handlers run in.
SessionUsers == {1}
\* Byte counters of a metric sample, in units of 2^20 bytes (550 GB and 0;
\* TLC's integers are 32 bits wide, a month of bytes is not).
NetworkMiB == {0, 563200}

VARIABLES
  balance,        \* users.balance, cents, per user row
  initialBalance, \* balance of each account when the behaviour starts
  applied,        \* sum of the deltas handed to updateUserBalance, per user
  servers,        \* servers table: id -> [userId, status, size]
  nextServerId,   \* serial of the servers table
  txs,            \* billing_transactions table, in insertion order
  teardowns,      \* provider: number of deleteDroplet calls per droplet
  droplets,       \* provider: number of createDroplet calls that succeeded
  jobs,           \* executions of deductHourlyServerCosts, per slot
  ticks,          \* number of times the hourly timer has fired
  reqs,           \* in-flight HTTP request handlers, per slot
  tickStart,      \* the tables as they were when the current tick started
  volumes,        \* volumes table: id -> [serverId, userId, size]
  nextVolumeId,   \* serial of the volumes table
  doVolumes,      \* provider: number of createVolume calls that succeeded
  metrics,        \* server_metrics table, in insertion order
  now,            \* the clock: instants since the start of month 0
  ovg,            \* the execution of calculateBandwidthOverages, if any
  ovgRuns,        \* number of times calculateBandwidthOverages was invoked
  tickets,        \* support_tickets table: id -> [userId, serverId, status]
  messages,       \* support_messages table, in insertion order
  probes          \* provider: number of getServerMetrics calls answered

vars == <<balance, initialBalance, applied, servers, nextServerId, txs,
          teardowns, droplets, jobs, ticks, reqs, tickStart, volumes,
          nextVolumeId, doVolumes, metrics, now, ovg, ovgRuns, tickets,
          messages, probes>>

\* The volume tables, which the hourly job never touches.
volVars == <<volumes, nextVolumeId, doVolumes>>

\* The metering state, which only the bandwidth settlement and the metric
\* handlers touch.
meterVars == <<metrics, now, ovg, ovgRuns>>

\* The support desk tables, which only the ticket handlers and the deletion
\* of a server touch.
deskVars == <<tickets, messages>>

\* ----------------------------------------------------------------- helpers
RECURSIVE SumAmounts(_)
SumAmounts(s) == IF s = <<>> THEN 0 ELSE Head(s).amount + SumAmounts(Tail(s))

\* All orders in which a SELECT without ORDER BY may return the rows of S.
RECURSIVE Perms(_)
Perms(S) ==
  IF S = {} THEN {<<>>}
  ELSE UNION {{<<x>> \o p : p \in Perms(S \ {x})} : x \in S}

RemoveKey(f, k) == [x \in (DOMAIN f) \ {k} |-> f[x]]

\* Math.round for a non-negative rational num/den: round half up.
RoundDiv(num, den) == (2 * num + den) \div (2 * den)

\* A conversion that rounds the dollars and forgets the factor 100.
toCents_NoScale(num, den) == RoundDiv(num, den)

\* toCents(dollars) with dollars given as the exact rational num/den.
toCents(num, den) == RoundDiv(num * 100, den)

\* ----------------------------------------------------------------- storage
\* getUser: the row, or undefined.
getUser(id) ==
  IF id \in DOMAIN balance
    THEN [exists |-> TRUE, balance |-> balance[id]]
    ELSE [exists |-> FALSE, balance |-> 0]

\* The balances a handler or an execution that is about to update the balance
\* of userId read with getUser earlier on.
EarlierReads(userId) ==
  {reqs[r].user.balance : r \in {q \in DOMAIN reqs :
      reqs[q].pc = "updateBalance" /\ reqs[q].userId = userId
      /\ reqs[q].user.exists}}
  \cup
  {jobs[j].user.balance : j \in {k \in DOMAIN jobs :
      jobs[k].pc = "updateBalance"
      /\ jobs[k].allServers[jobs[k].i].userId = userId}}

\* The update written as a read followed by a write: the new balance is
\* computed in the application from the row read earlier.
updateUserBalance_ReadThenWrite(userId, amount) ==
  IF userId \notin DOMAIN balance THEN balance
  ELSE IF EarlierReads(userId) = {}
    THEN [balance EXCEPT ![userId] = @ + amount]
    ELSE [balance EXCEPT ![userId] =
            (CHOOSE b \in EarlierReads(userId) : TRUE) + amount]

\* UPDATE users SET balance = balance + amount WHERE id = userId
\* One SQL statement: the addition happens inside the database.
updateUserBalance(userId, amount) ==
  IF userId \in DOMAIN balance
    THEN [balance EXCEPT ![userId] = @ + amount]
    ELSE balance

\* The bookkeeping of the deltas that were handed to updateUserBalance.
Applied(userId, amount) ==
  IF userId \in DOMAIN applied
    THEN [applied EXCEPT ![userId] = @ + amount]
    ELSE applied

\* A write that overwrites the newest row instead of adding one.
createTransaction_ReplacesLast(userId, amount, type, paypalId) ==
  LET row == [userId |-> userId, amount |-> amount, currency |-> "USD",
              status |-> "completed", type |-> type,
              paypalTransactionId |-> paypalId, createdAt |-> now]
  IN IF txs = <<>> THEN <<row>> ELSE [txs EXCEPT ![Len(txs)] = row]

\* INSERT INTO billing_transactions
createTransaction(userId, amount, type, paypalId) ==
  Append(txs, [userId |-> userId, amount |-> amount, currency |-> "USD",
               status |-> "completed", type |-> type,
               paypalTransactionId |-> paypalId, createdAt |-> now])

\* part_000:176-182  the rows of the user ORDER BY created_at (ascending, the
\* default), in every order the database may give rows of equal created_at.
getTransactionsByUser(userId) ==
  LET rows == {k \in 1..Len(txs) : txs[k].userId = userId} IN
  {[k \in 1..Len(p) |-> txs[p[k]]] :
     p \in {q \in Perms(rows) :
              \A a, b \in 1..Len(q) :
                a < b => txs[q[a]].createdAt <= txs[q[b]].createdAt}}

\* routes.ts:431-436  GET /api/billing/transactions?page=&limit=: the body of
\* the response; req.query is not read.
ListTransactions(userId, page, limit) == getTransactionsByUser(userId)

\* SELECT * FROM servers, rows carrying their id, in any order.
getAllServers ==
  {[k \in 1..Len(p) |-> [id |-> p[k], userId |-> servers[p[k]].userId,
                         status |-> servers[p[k]].status,
                         size |-> servers[p[k]].size]] :
     p \in Perms(DOMAIN servers)}

\* A delete that leaves the row in place.
deleteServer_Noop(id) == servers

\* DELETE FROM servers WHERE id = $1
deleteServer(id) ==
  IF id \in DOMAIN servers THEN RemoveKey(servers, id) ELSE servers

\* INSERT INTO servers ... RETURNING *
createServer(userId, size) ==
  [id \in (DOMAIN servers) \cup {nextServerId} |->
     IF id = nextServerId
       THEN [userId |-> userId, status |-> "new", size |-> size]
       ELSE servers[id]]

\* INSERT INTO volumes ... RETURNING *
createVolume(userId, serverId, size) ==
  [id \in (DOMAIN volumes) \cup {nextVolumeId} |->
     IF id = nextVolumeId
       THEN [serverId |-> serverId, userId |-> userId, size |-> size]
       ELSE volumes[id]]

\* UPDATE volumes SET <the whole row> WHERE id = volume.id
updateVolume(id, row) ==
  IF id \in DOMAIN volumes THEN [volumes EXCEPT ![id] = row] ELSE volumes

\* --------------------------------------------------------------- calendar
\* Instants in a month.
MonthLen == MonthDays * InstantsPerDay

MonthOf(t) == t \div MonthLen

\* Date.getDate(): the day of the month, from 1.
DayOfMonth(t) == ((t % MonthLen) \div InstantsPerDay) + 1

\* new Date(year, month, 1): midnight at the start of the month.
StartOfMonth(t) == MonthOf(t) * MonthLen

\* new Date(year, month + 1, 0): day 0 of the next month, which is midnight
\* at the start of the last day of this month.
EndOfMonth(t) == StartOfMonth(t) + (MonthDays - 1) * InstantsPerDay

\* ------------------------------------------------------------- bandwidth
IdleOvg == [pc |-> "idle", active |-> <<>>, i |-> 0, cents |-> 0]

\* part_002:462-473  sizeToLimit[server.size] || 1000, in GB
BandwidthLimitGB(size) ==
  CASE size = "s-1vcpu-1gb" -> 1000
    [] size = "s-1vcpu-2gb" -> 2000
    [] size = "s-2vcpu-2gb" -> 3000
    [] size = "s-2vcpu-4gb" -> 4000
    [] size = "s-4vcpu-8gb" -> 5000
    [] size = "s-8vcpu-16gb" -> 6000
    [] OTHER -> 1000

\* part_002:578-591  sizePrices[size] || 5, in dollars
getServerMonthlyPrice(size) ==
  CASE size = "s-1vcpu-1gb" -> 5
    [] size = "s-1vcpu-2gb" -> 10
    [] size = "s-2vcpu-2gb" -> 15
    [] size = "s-2vcpu-4gb" -> 20
    [] size = "s-4vcpu-8gb" -> 40
    [] size = "s-8vcpu-16gb" -> 80
    [] OTHER -> 5

\* part_002:427-435  the samples of the server with
\* startOfMonth <= timestamp <= endOfMonth
MonthMetrics(serverId, t) ==
  SelectSeq(metrics, LAMBDA m : /\ m.serverId = serverId
                                /\ m.timestamp >= StartOfMonth(t)
                                /\ m.timestamp <= EndOfMonth(t))

RECURSIVE SumNetwork(_)
SumNetwork(ms) ==
  IF ms = <<>> THEN 0
  ELSE Head(ms).networkIn + Head(ms).networkOut + SumNetwork(Tail(ms))

\* part_002:457,479  parseFloat((bytes / 2^30).toFixed(2)), in hundredths of
\* a GB; the counters are in units of 2^20 bytes, so GB = units / 1024.
\* toFixed rounds the exact quotient half up.
CurrentUsage100(serverId, t) ==
  RoundDiv(SumNetwork(MonthMetrics(serverId, t)) * 100, 1024)

\* The cost with the fraction of a cent dropped instead of rounded.
OverageCostCents_Truncated(current100, limitGB, price) ==
  ((current100 - limitGB * 100) * price) \div 200

\* part_002:538-547  Math.round(overageGB * (price * 0.005) * 100), with
\* overageGB = current - limit in hundredths of a GB.
OverageCostCents(current100, limitGB, price) ==
  RoundDiv((current100 - limitGB * 100) * price, 200)

\* A settlement that bills all the usage of the period, limit or no limit.
OverageDue_ChargesAllUsage(server, t) ==
  IF server.id \notin DOMAIN servers THEN 0
  ELSE RoundDiv(CurrentUsage100(server.id, t)
                  * getServerMonthlyPrice(server.size), 200)

\* part_002:529-552  what processBandwidthOverage decides to charge for the
\* row `server` at instant t: 0 when it returns without charging.
OverageDue(server, t) ==
  IF server.id \notin DOMAIN servers THEN 0
  ELSE LET cur == CurrentUsage100(server.id, t)
           lim == BandwidthLimitGB(servers[server.id].size)
       IN IF cur <= lim * 100 THEN 0
          ELSE IF OverageCostCents(cur, lim, getServerMonthlyPrice(server.size)) <= 0
            THEN 0
            ELSE OverageCostCents(cur, lim, getServerMonthlyPrice(server.size))

\* ------------------------------------------------------- request handlers
IdleReq == [pc |-> "idle", kind |-> "none", userId |-> 0, cost |-> 0,
            amount |-> 0, target |-> 0, size |-> "", gb |-> 0,
            row |-> [serverId |-> 0, userId |-> 0, size |-> 0],
            paypalId |-> "null",
            user |-> [exists |-> FALSE, balance |-> 0]]

\* routes.ts:269/353  size * (baseRate + markup) dollars, through toCents
VolumeCents(gb) == toCents(gb * (BaseRateE5 + MarkupE5), 100000)

TxType(kind) ==
  CASE kind = "server" -> "server_charge"
    [] kind = "volume" -> "volume_charge"
    [] kind = "resize" -> "volume_resize_charge"
    [] kind = "deposit" -> "deposit"

\* Handler slots are taken in order: which slot serves a request is immaterial.
FreeSlot(r) ==
  /\ reqs[r].pc = "idle"
  /\ \A q \in ReqIds : q < r => reqs[q].pc # "idle"

\* routes.ts:153-165  POST /api/servers, up to the call of checkBalance
StartServer(r, u, size) ==
  /\ FreeSlot(r)
  /\ reqs' = [reqs EXCEPT ![r] =
       [IdleReq EXCEPT !.pc = "checkBalance", !.kind = "server", !.userId = u,
                       !.cost = toCents(ServerHourlyCost, 1),
                       !.amount = -toCents(ServerHourlyCost, 1),
                       !.size = size]]
  /\ UNCHANGED <<balance, initialBalance, applied, servers, nextServerId, txs,
                 teardowns, droplets, volVars, jobs, ticks, tickStart,
                 meterVars,
                 deskVars, probes>>

\* routes.ts:248-273  POST /api/servers/:id/volumes: getServer, validation
StartVolume(r, u, sid, gb) ==
  /\ FreeSlot(r)
  /\ sid \in DOMAIN servers /\ servers[sid].userId = u
  /\ gb > 0 /\ gb <= MaxVolumeSize
  /\ reqs' = [reqs EXCEPT ![r] =
       [IdleReq EXCEPT !.pc = "checkBalance", !.kind = "volume", !.userId = u,
                       !.cost = VolumeCents(gb), !.amount = -VolumeCents(gb),
                       !.target = sid, !.gb = gb]]
  /\ UNCHANGED <<balance, initialBalance, applied, servers, nextServerId, txs,
                 teardowns, droplets, volVars, jobs, ticks, tickStart,
                 meterVars,
                 deskVars, probes>>

\* routes.ts:328-359  PATCH /api/servers/:id/volumes/:volumeId: getServer,
\* getVolume, validation.  additionalCost = size*rate - volume.size*rate.
StartResize(r, u, sid, vid, gb) ==
  /\ FreeSlot(r)
  /\ sid \in DOMAIN servers /\ servers[sid].userId = u
  /\ vid \in DOMAIN volumes /\ volumes[vid].serverId = sid
  /\ gb > volumes[vid].size /\ gb <= MaxVolumeSize
  /\ LET c == VolumeCents(gb - volumes[vid].size) IN
     reqs' = [reqs EXCEPT ![r] =
       [IdleReq EXCEPT !.pc = "checkBalance", !.kind = "resize", !.userId = u,
                       !.cost = c, !.amount = -c, !.target = vid, !.gb = gb,
                       !.row = volumes[vid]]]
  /\ UNCHANGED <<balance, initialBalance, applied, servers, nextServerId, txs,
                 teardowns, droplets, volVars, jobs, ticks, tickStart,
                 meterVars,
                 deskVars, probes>>

\* routes.ts:402-411  POST /api/billing/capture/:orderId: capturePayment
\* returned { payment, amount }.
StartCapture(r, u, order, dollars) ==
  /\ FreeSlot(r)
  /\ reqs' = [reqs EXCEPT ![r] =
       [IdleReq EXCEPT !.pc = "updateBalance", !.kind = "deposit", !.userId = u,
                       !.amount = toCents(dollars, 1), !.paypalId = order]]
  /\ UNCHANGED <<balance, initialBalance, applied, servers, nextServerId, txs,
                 teardowns, droplets, volVars, jobs, ticks, tickStart,
                 meterVars,
                 deskVars, probes>>

\* A check that looks at the account only, not at the cost.
Insufficient_IgnoresCost(user, costInCents) == ~user.exists

\* routes.ts:62  `!user || user.balance < costInCents`
Insufficient(user, costInCents) == ~user.exists \/ user.balance < costInCents

\* routes.ts:59-65  checkBalance: getUser, then throw or return
ReqCheckBalance(r) ==
  /\ reqs[r].pc = "checkBalance"
  /\ LET u == getUser(reqs[r].userId) IN
     reqs' = [reqs EXCEPT ![r].user = u,
                ![r].pc = IF Insufficient(u, reqs[r].cost) THEN "rejected"
                          ELSE CASE reqs[r].kind = "server" -> "createDroplet"
                                 [] reqs[r].kind = "volume" -> "createVolume"
                                 [] reqs[r].kind = "resize" -> "updateVolume"]
  /\ UNCHANGED <<balance, initialBalance, applied, servers, nextServerId, txs,
                 teardowns, droplets, volVars, jobs, ticks, tickStart,
                 meterVars,
                 deskVars, probes>>

\* routes.ts:169-177  await digitalOcean.createDroplet(...)
ReqCreateDroplet(r) ==
  /\ reqs[r].pc = "createDroplet"
  /\ droplets' = droplets + 1
  /\ reqs' = [reqs EXCEPT ![r].pc = "createServer"]
  /\ UNCHANGED <<balance, initialBalance, applied, servers, nextServerId, txs,
                 teardowns, volVars, jobs, ticks, tickStart,
                 meterVars,
                 deskVars, probes>>

\* routes.ts:179-193  await storage.createServer({... status: "new" ...})
ReqCreateServer(r) ==
  /\ reqs[r].pc = "createServer"
  /\ servers' = createServer(reqs[r].userId, reqs[r].size)
  /\ nextServerId' = nextServerId + 1
  /\ reqs' = [reqs EXCEPT ![r].pc = "updateBalance", ![r].target = nextServerId]
  /\ UNCHANGED <<balance, initialBalance, applied, txs, teardowns, droplets,
                 volVars, jobs, ticks, tickStart,
                 meterVars,
                 deskVars, probes>>

\* routes.ts:280-284  await digitalOcean.createVolume(...)
ReqCreateDoVolume(r) ==
  /\ reqs[r].pc = "createVolume"
  /\ doVolumes' = doVolumes + 1
  /\ reqs' = [reqs EXCEPT ![r].pc = "insertVolume"]
  /\ UNCHANGED <<balance, initialBalance, applied, servers, nextServerId, txs,
                 teardowns, droplets, volumes, nextVolumeId, jobs, ticks,
                 tickStart,
                 meterVars,
                 deskVars, probes>>

\* routes.ts:286-292  await storage.createVolume(...)
ReqInsertVolume(r) ==
  /\ reqs[r].pc = "insertVolume"
  /\ volumes' = createVolume(reqs[r].userId, reqs[r].target, reqs[r].gb)
  /\ nextVolumeId' = nextVolumeId + 1
  /\ reqs' = [reqs EXCEPT ![r].pc = "updateBalance"]
  /\ UNCHANGED <<balance, initialBalance, applied, servers, nextServerId, txs,
                 teardowns, droplets, doVolumes, jobs, ticks, tickStart,
                 meterVars,
                 deskVars, probes>>

\* routes.ts:366-368  volume.size = size; await storage.updateVolume(volume)
ReqUpdateVolume(r) ==
  /\ reqs[r].pc = "updateVolume"
  /\ volumes' = updateVolume(reqs[r].target,
                             [reqs[r].row EXCEPT !.size = reqs[r].gb])
  /\ reqs' = [reqs EXCEPT ![r].pc = "updateBalance"]
  /\ UNCHANGED <<balance, initialBalance, applied, servers, nextServerId, txs,
                 teardowns, droplets, nextVolumeId, doVolumes, jobs, ticks,
                 tickStart,
                 meterVars,
                 deskVars, probes>>

\* routes.ts:196/296/372/412  await storage.updateUserBalance(req.user.id, delta)
ReqUpdateBalance(r) ==
  /\ reqs[r].pc = "updateBalance"
  /\ balance' = updateUserBalance(reqs[r].userId, reqs[r].amount)
  /\ applied' = Applied(reqs[r].userId, reqs[r].amount)
  /\ reqs' = [reqs EXCEPT ![r].pc = "createTransaction"]
  /\ UNCHANGED <<initialBalance, servers, nextServerId, txs, teardowns,
                 droplets, volVars, jobs, ticks, tickStart,
                 meterVars,
                 deskVars, probes>>

\* routes.ts:197/297/373/415  await storage.createTransaction({...}); respond
ReqCreateTransaction(r) ==
  /\ reqs[r].pc = "createTransaction"
  /\ txs' = createTransaction(reqs[r].userId, reqs[r].amount,
                              TxType(reqs[r].kind), reqs[r].paypalId)
  /\ reqs' = [reqs EXCEPT ![r].pc = "done"]
  /\ UNCHANGED <<balance, initialBalance, applied, servers, nextServerId,
                 teardowns, droplets, volVars, jobs, ticks, tickStart,
                 meterVars,
                 deskVars, probes>>

\* --------------------------------------------------------- hourly metering
IdleJob == [pc |-> "idle", allServers |-> <<>>, i |-> 0,
            user |-> [exists |-> FALSE, balance |-> 0]]

\* The server the loop of execution j is at.
Cur(j) == jobs[j].allServers[jobs[j].i]

\* `continue` / end of the loop body: the next server, or the function returns.
Advance(job) ==
  IF job.i < Len(job.allServers)
    THEN [job EXCEPT !.pc = "getUser", !.i = @ + 1]
    ELSE [job EXCEPT !.pc = "done", !.i = @ + 1]

\* The solvency test with `<=` in place of `<`.
CannotPay_OffByOne(user) == ~user.exists \/ user.balance <= 100

\* A solvency test that only looks for the account.
CannotPay_OnlyMissing(user) == ~user.exists

\* A solvency test that asks for two hours of balance.
CannotPay_TwoHours(user) == ~user.exists \/ user.balance < 200

\* routes.ts:35  `!user || user.balance < 100`
CannotPay(user) == ~user.exists \/ user.balance < MinHourlyBalance

\* setInterval fires: deductHourlyServerCosts() is called and reads the servers.
TimerFire(j) ==
  /\ jobs[j].pc = "idle"
  /\ ticks < MaxTicks
  /\ \E all \in getAllServers :
       jobs' = [jobs EXCEPT ![j] =
                  [pc |-> IF all = <<>> THEN "done" ELSE "getUser",
                   allServers |-> all, i |-> 1,
                   user |-> [exists |-> FALSE, balance |-> 0]]]
  /\ ticks' = ticks + 1
  /\ UNCHANGED <<balance, initialBalance, applied, servers, nextServerId, txs,
                 teardowns, droplets, volVars, reqs,
                 meterVars,
                 deskVars, probes>>

\* routes.ts:34-35  const user = await storage.getUser(server.userId)
JobGetUser(j) ==
  /\ jobs[j].pc = "getUser"
  /\ LET u == getUser(Cur(j).userId) IN
       jobs' = [jobs EXCEPT ![j].user = u,
                            ![j].pc = IF CannotPay(u) THEN "deleteDroplet"
                                      ELSE "updateBalance"]
  /\ UNCHANGED <<balance, initialBalance, applied, servers, nextServerId, txs,
                 teardowns, droplets, volVars, ticks, reqs,
                 meterVars,
                 deskVars, probes>>

\* routes.ts:37  await digitalOcean.deleteDroplet(server.dropletId)
JobDeleteDroplet(j) ==
  /\ jobs[j].pc = "deleteDroplet"
  /\ teardowns' = [teardowns EXCEPT ![Cur(j).id] = @ + 1]
  /\ jobs' = [jobs EXCEPT ![j].pc = "deleteServer"]
  /\ UNCHANGED <<balance, initialBalance, applied, servers, nextServerId, txs,
                 droplets, volVars, ticks, reqs,
                 meterVars,
                 deskVars, probes>>

\* routes.ts:38-39  await storage.deleteServer(server.id); continue
JobDeleteServer(j) ==
  /\ jobs[j].pc = "deleteServer"
  /\ servers' = deleteServer(Cur(j).id)
  /\ jobs' = [jobs EXCEPT ![j] = Advance(@)]
  /\ UNCHANGED <<balance, initialBalance, applied, nextServerId, txs,
                 teardowns, droplets, volVars, ticks, reqs,
                 meterVars,
                 deskVars, probes>>

\* routes.ts:43  await storage.updateUserBalance(server.userId, -100)
JobUpdateBalance(j) ==
  /\ jobs[j].pc = "updateBalance"
  /\ balance' = updateUserBalance(Cur(j).userId, -HourlyCharge)
  /\ applied' = Applied(Cur(j).userId, -HourlyCharge)
  /\ jobs' = [jobs EXCEPT ![j].pc = "createTransaction"]
  /\ UNCHANGED <<initialBalance, servers, nextServerId, txs, teardowns,
                 droplets, volVars, ticks, reqs,
                 meterVars,
                 deskVars, probes>>

\* routes.ts:44-52  await storage.createTransaction({... amount: -100 ...})
JobCreateTransaction(j) ==
  /\ jobs[j].pc = "createTransaction"
  /\ txs' = createTransaction(Cur(j).userId, -HourlyCharge,
                              "hourly_server_charge", "null")
  /\ jobs' = [jobs EXCEPT ![j] = Advance(@)]
  /\ UNCHANGED <<balance, initialBalance, applied, servers, nextServerId,
                 teardowns, droplets, volVars, ticks, reqs,
                 meterVars,
                 deskVars, probes>>

\* The promise of the execution settles; the slot is free for a later firing.
JobReturn(j) ==
  /\ jobs[j].pc \in {"done", "aborted"}
  /\ jobs' = [jobs EXCEPT ![j] = IdleJob]
  /\ UNCHANGED <<balance, initialBalance, applied, servers, nextServerId, txs,
                 teardowns, droplets, volVars, ticks, reqs,
                 meterVars,
                 deskVars, probes>>

NoJobRunning == \A j \in JobIds : jobs[j].pc = "idle"

\* The tables a tick works on.
Tables == [balance |-> balance, servers |-> servers, txs |-> txs,
           teardowns |-> teardowns]

\* One pass of the loop body of deductHourlyServerCosts over tables st,
\* with nothing else running in between.
ChargeOrReclaim(st, server) ==
  LET user == IF server.userId \in DOMAIN st.balance
                THEN [exists |-> TRUE, balance |-> st.balance[server.userId]]
                ELSE [exists |-> FALSE, balance |-> 0]
  IN IF CannotPay(user)
       THEN [st EXCEPT !.teardowns[server.id] = @ + 1,
                       !.servers = IF server.id \in DOMAIN @
                                     THEN RemoveKey(@, server.id) ELSE @]
       ELSE [st EXCEPT !.balance[server.userId] = @ - HourlyCharge,
                       !.txs = Append(@, [userId |-> server.userId,
                                          amount |-> -HourlyCharge,
                                          currency |-> "USD",
                                          status |-> "completed",
                                          type |-> "hourly_server_charge",
                                          paypalTransactionId |-> "null",
                                          createdAt |-> now])]

\* deductHourlyServerCosts run to completion over the rows `all`, alone.
RECURSIVE RunTick(_, _)
RunTick(all, st) ==
  IF all = <<>> THEN st
  ELSE RunTick(Tail(all), ChargeOrReclaim(st, Head(all)))

\* ------------------------------------------- one tick at a time, no faults
InitTick ==
  /\ balance \in [Users -> InitBalances]
  /\ initialBalance = balance
  /\ applied = [u \in Users |-> 0]
  /\ \E S \in SUBSET (1..MaxServers) :
       servers \in [S -> [userId : Users \cup {GhostUser},
                          status : {"active", "off"},
                          size : {"s-1vcpu-1gb"}]]
  /\ nextServerId = MaxServers + 1
  /\ txs = <<>>
  /\ teardowns = [s \in ServerIds |-> 0]
  /\ droplets = 0
  /\ jobs = [j \in JobIds |-> IdleJob]
  /\ ticks = 0
  /\ reqs = [r \in ReqIds |-> IdleReq]
  /\ tickStart = Tables
  /\ volumes = <<>>
  /\ nextVolumeId = 1
  /\ doVolumes = 0
  /\ metrics = <<>>
  /\ now = 0
  /\ ovg = IdleOvg
  /\ ovgRuns = 0
  /\ tickets = <<>>
  /\ messages = <<>>
  /\ probes = 0

\* The timer fires while no execution is in flight.
TickStart == NoJobRunning /\ TimerFire(1) /\ tickStart' = Tables

NextTick ==
  \/ TickStart
  \/ JobGetUser(1) /\ UNCHANGED tickStart
  \/ JobDeleteDroplet(1) /\ UNCHANGED tickStart
  \/ JobDeleteServer(1) /\ UNCHANGED tickStart
  \/ JobUpdateBalance(1) /\ UNCHANGED tickStart
  \/ JobCreateTransaction(1) /\ UNCHANGED tickStart
  \/ JobReturn(1) /\ UNCHANGED tickStart

SpecTick == InitTick /\ [][NextTick]_vars

\* ------------------------- concurrent handlers and executions, no faults
\* Execution slots are taken in order: which slot runs a tick is immaterial.
LowestIdle(j) == \A k \in JobIds : k < j => jobs[k].pc # "idle"

\* The timer fires whether or not an earlier execution is still in flight:
\* setInterval does not wait for the promise of the previous call.
Fire(j) == LowestIdle(j) /\ TimerFire(j) /\ UNCHANGED tickStart

Init ==
  /\ \E b \in InitBalances : balance = [u \in Users |-> IF u = 1 THEN b ELSE 0]
  /\ initialBalance = balance
  /\ applied = [u \in Users |-> 0]
  /\ servers = [s \in {1} |-> [userId |-> 1, status |-> "active",
                                size |-> "s-1vcpu-1gb"]]
  /\ nextServerId = 2
  /\ txs = <<>>
  /\ teardowns = [s \in ServerIds |-> 0]
  /\ droplets = 0
  /\ jobs = [j \in JobIds |-> IdleJob]
  /\ ticks = 0
  /\ reqs = [r \in ReqIds |-> IdleReq]
  /\ tickStart = Tables
  /\ volumes = [v \in {1} |-> [serverId |-> 1, userId |-> 1, size |-> 50]]
  /\ nextVolumeId = 2
  /\ doVolumes = 0
  /\ metrics = <<>>
  /\ now = 0
  /\ ovg = IdleOvg
  /\ ovgRuns = 0
  /\ tickets = <<>>
  /\ messages = <<>>
  /\ probes = 0

JobStep(j) ==
  /\ \/ JobGetUser(j)
     \/ JobDeleteDroplet(j)
     \/ JobDeleteServer(j)
     \/ JobUpdateBalance(j)
     \/ JobCreateTransaction(j)
     \/ JobReturn(j)
  /\ UNCHANGED tickStart

ReqStart(r) ==
  \/ \E u \in SessionUsers : StartServer(r, u, "s-1vcpu-1gb")
  \/ \E u \in SessionUsers, sid \in DOMAIN servers, gb \in VolumeSizes :
       StartVolume(r, u, sid, gb)
  \/ \E u \in SessionUsers, sid \in DOMAIN servers, vid \in DOMAIN volumes,
        gb \in VolumeSizes : StartResize(r, u, sid, vid, gb)
  \/ \E u \in SessionUsers, o \in OrderIds, d \in DepositDollars :
       StartCapture(r, u, o, d)

ReqStep(r) ==
  \/ ReqCheckBalance(r)
  \/ ReqCreateDroplet(r)
  \/ ReqCreateServer(r)
  \/ ReqCreateDoVolume(r)
  \/ ReqInsertVolume(r)
  \/ ReqUpdateVolume(r)
  \/ ReqUpdateBalance(r)
  \/ ReqCreateTransaction(r)

\* Request handlers running concurrently with one execution of the job.
Next ==
  \/ Fire(1)
  \/ JobStep(1)
  \/ \E r \in ReqIds : ReqStart(r)
  \/ \E r \in ReqIds : ReqStep(r)

Spec == Init /\ [][Next]_vars

\* Executions of the job alone, overlapping when the timer fires early.
NextOverlap ==
  \/ \E j \in JobIds : Fire(j)
  \/ \E j \in JobIds : JobStep(j)

\* ----------------------------------------------- bandwidth settlement
\* The row calculateBandwidthOverages is at.
OvgCur == ovg.active[ovg.i]

\* The next active server, or the function returns.
OvgAdvance(o) ==
  IF o.i < Len(o.active)
    THEN [o EXCEPT !.pc = "measure", !.i = @ + 1, !.cents = 0]
    ELSE IdleOvg

\* The settlement entered on any day of the month.
OvgInvoke_AnyDay ==
  /\ ovg.pc = "idle"
  /\ ovgRuns < MaxOvgRuns
  /\ ovgRuns' = ovgRuns + 1
  /\ \E all \in getAllServers :
       LET activeServers == SelectSeq(all, LAMBDA sv : sv.status = "active") IN
       ovg' = IF activeServers = <<>> THEN IdleOvg
              ELSE [pc |-> "measure", active |-> activeServers, i |-> 1,
                    cents |-> 0]
  /\ UNCHANGED <<balance, initialBalance, applied, servers, nextServerId, txs,
                 teardowns, droplets, volVars, jobs, ticks, reqs, tickStart,
                 metrics, now, deskVars, probes>>

\* part_002:492-511  calculateBandwidthOverages is called: the active
\* servers are read, and the loop is entered only on the last day of the
\* month.
OvgInvoke ==
  /\ ovg.pc = "idle"
  /\ ovgRuns < MaxOvgRuns
  /\ ovgRuns' = ovgRuns + 1
  /\ \E all \in getAllServers :
       LET activeServers == SelectSeq(all, LAMBDA sv : sv.status = "active") IN
       ovg' = IF activeServers = <<>> THEN IdleOvg
              ELSE IF DayOfMonth(now) # DayOfMonth(EndOfMonth(now)) THEN IdleOvg
              ELSE [pc |-> "measure", active |-> activeServers, i |-> 1,
                    cents |-> 0]
  /\ UNCHANGED <<balance, initialBalance, applied, servers, nextServerId, txs,
                 teardowns, droplets, volVars, jobs, ticks, reqs, tickStart,
                 metrics, now,
                 deskVars, probes>>

\* part_002:526-552  processBandwidthOverage: getServerBandwidth, the
\* comparison with the limit, the cost; an error is caught and logged.
OvgMeasure ==
  /\ ovg.pc = "measure"
  /\ ovg' = IF OverageDue(OvgCur, now) = 0 THEN OvgAdvance(ovg)
            ELSE [ovg EXCEPT !.pc = "createTransaction",
                             !.cents = OverageDue(OvgCur, now)]
  /\ UNCHANGED <<balance, initialBalance, applied, servers, nextServerId, txs,
                 teardowns, droplets, volVars, jobs, ticks, reqs, tickStart,
                 metrics, now, ovgRuns,
                 deskVars, probes>>

\* part_002:555-564  createTransaction({ amount: overageCostCents, ... })
OvgCreateTransaction ==
  /\ ovg.pc = "createTransaction"
  /\ txs' = createTransaction(OvgCur.userId, ovg.cents, "bandwidth_overage",
                              "null")
  /\ ovg' = [ovg EXCEPT !.pc = "updateBalance"]
  /\ UNCHANGED <<balance, initialBalance, applied, servers, nextServerId,
                 teardowns, droplets, volVars, jobs, ticks, reqs, tickStart,
                 metrics, now, ovgRuns,
                 deskVars, probes>>

\* part_002:567  updateUserBalance(server.userId, -overageCostCents)
OvgUpdateBalance ==
  /\ ovg.pc = "updateBalance"
  /\ balance' = updateUserBalance(OvgCur.userId, -ovg.cents)
  /\ applied' = Applied(OvgCur.userId, -ovg.cents)
  /\ ovg' = OvgAdvance(ovg)
  /\ UNCHANGED <<initialBalance, servers, nextServerId, txs, teardowns,
                 droplets, volVars, jobs, ticks, reqs, tickStart, metrics, now,
                 ovgRuns,
                 deskVars, probes>>

\* routes.ts:891-926  POST /api/servers/:id/metrics/refresh: the provider's
\* counters are stored as a new sample stamped with the current time.
RefreshMetrics(sid, nin, nout) ==
  /\ sid \in DOMAIN servers
  /\ Len(metrics) < MaxSamples
  /\ metrics' = Append(metrics, [serverId |-> sid, networkIn |-> nin,
                                 networkOut |-> nout, timestamp |-> now])
  /\ probes' = probes + 1
  /\ UNCHANGED <<balance, initialBalance, applied, servers, nextServerId, txs,
                 teardowns, droplets, volVars, jobs, ticks, reqs, tickStart,
                 now, ovg, ovgRuns,
                 deskVars>>

\* Time passes.
ClockTick ==
  /\ now < MaxTime
  /\ now' = now + 1
  /\ UNCHANGED <<balance, initialBalance, applied, servers, nextServerId, txs,
                 teardowns, droplets, volVars, jobs, ticks, reqs, tickStart,
                 metrics, ovg, ovgRuns,
                 deskVars, probes>>

InitOverage ==
  /\ balance \in [Users -> {0, 1000}]
  /\ initialBalance = balance
  /\ applied = [u \in Users |-> 0]
  /\ \E S \in {{1}, {1, 2}} :
       servers \in {f \in [S -> [userId : Users, status : {"active", "off"},
                                 size : Sizes]] :
                      /\ \A x \in S : f[x].userId = x
                      /\ 2 \in S => f[2].size = "s-1vcpu-2gb"}
  /\ nextServerId = MaxServers + 1
  /\ txs = <<>>
  /\ teardowns = [s \in ServerIds |-> 0]
  /\ droplets = 0
  /\ jobs = [j \in JobIds |-> IdleJob]
  /\ ticks = 0
  /\ reqs = [r \in ReqIds |-> IdleReq]
  /\ tickStart = Tables
  /\ volumes = <<>>
  /\ nextVolumeId = 1
  /\ doVolumes = 0
  /\ metrics = <<>>
  /\ now = 0
  /\ ovg = IdleOvg
  /\ ovgRuns = 0
  /\ tickets = <<>>
  /\ messages = <<>>
  /\ probes = 0

NextOverage ==
  \/ OvgInvoke
  \/ OvgMeasure
  \/ OvgCreateTransaction
  \/ OvgUpdateBalance
  \/ \E sid \in DOMAIN servers, nin \in NetworkMiB \ {0}, nout \in NetworkMiB :
       RefreshMetrics(sid, nin, nout)
  \/ ClockTick

SpecOverage == InitOverage /\ [][NextOverage]_vars

\* ------------------------------------------- settlement of one account
\* Counters <<network_in, network_out>> of a sample, in units of 2^20 bytes:
\* 1000 GB, 550 GB, 1100.30 GB (1100.2998 before toFixed) and 1100 GB.  The
\* settlement only sums the counters of the month, so one sample here stands
\* for the run of smaller samples that add up to it.
MeterSamples ==
  {<<512000, 512000>>, <<563200, 0>>, <<563200, 563507>>, <<563200, 563200>>}

\* Account 1 owns two active servers, the first of any size.
InitMeter ==
  /\ balance \in [Users -> {0}]
  /\ initialBalance = balance
  /\ applied = [u \in Users |-> 0]
  /\ servers \in {f \in [{1, 2} -> [userId : {1}, status : {"active"},
                                      size : Sizes]] :
                    f[2].size = "s-1vcpu-1gb"}
  /\ nextServerId = MaxServers + 1
  /\ txs = <<>>
  /\ teardowns = [s \in ServerIds |-> 0]
  /\ droplets = 0
  /\ jobs = [j \in JobIds |-> IdleJob]
  /\ ticks = 0
  /\ reqs = [r \in ReqIds |-> IdleReq]
  /\ tickStart = Tables
  /\ volumes = <<>>
  /\ nextVolumeId = 1
  /\ doVolumes = 0
  /\ metrics = <<>>
  /\ now = 0
  /\ ovg = IdleOvg
  /\ ovgRuns = 0
  /\ tickets = <<>>
  /\ messages = <<>>
  /\ probes = 0

NextMeter ==
  \/ OvgInvoke
  \/ OvgMeasure
  \/ OvgCreateTransaction
  \/ OvgUpdateBalance
  \/ \E sid \in DOMAIN servers, m \in MeterSamples :
       RefreshMetrics(sid, m[1], m[2])
  \/ ClockTick

SpecMeter == InitMeter /\ [][NextMeter]_vars

\* ------------------------------------------------------ deposit captures
\* Amounts the payment collaborator reports as captured, in dollars.
CapturedDollars == {5, 20}

\* A failed capture that credits the account all the same.
CaptureRejected_CreditsAnyway(r, u, order) ==
  /\ FreeSlot(r)
  /\ reqs' = [reqs EXCEPT ![r] = [IdleReq EXCEPT !.pc = "failed",
                                                 !.kind = "deposit",
                                                 !.userId = u]]
  /\ balance' = updateUserBalance(u, toCents(5, 1))
  /\ txs' = txs
  /\ UNCHANGED <<initialBalance, applied, servers, nextServerId, teardowns,
                 droplets, volVars, jobs, ticks, tickStart, meterVars,
                 deskVars, probes>>

\* routes.ts:407-408, 426-428; paypal.ts:43-49  capturePayment rethrows the
\* collaborator's error: the handler goes from the await straight to its
\* catch and answers 400.
CaptureRejected(r, u, order) ==
  /\ FreeSlot(r)
  /\ reqs' = [reqs EXCEPT ![r] = [IdleReq EXCEPT !.pc = "failed",
                                                 !.kind = "deposit",
                                                 !.userId = u]]
  /\ balance' = balance
  /\ txs' = txs
  /\ UNCHANGED <<initialBalance, applied, servers, nextServerId, teardowns,
                 droplets, volVars, jobs, ticks, tickStart, meterVars,
                 deskVars, probes>>

\* Capture requests of one account, each succeeding or failing at the
\* payment collaborator, their steps interleaved.
NextCapture ==
  \/ \E r \in ReqIds, u \in SessionUsers, o \in OrderIds, d \in CapturedDollars :
       StartCapture(r, u, o, d)
  \/ \E r \in ReqIds, u \in SessionUsers, o \in OrderIds :
       CaptureRejected(r, u, o)
  \/ \E r \in ReqIds : ReqUpdateBalance(r)
  \/ \E r \in ReqIds : ReqCreateTransaction(r)

SpecCapture == Init /\ [][NextCapture]_vars

\* Captures spread over time: the ledger an account lists.
NextLedger ==
  \/ NextCapture
  \/ ClockTick

SpecLedger == Init /\ [][NextLedger]_vars

\* ------------------------------------------------ the latest-sample cache
\* routes.ts:830  5 * 60 * 1000 ms, in instants of the clock: in the cache
\* specification an instant is two and a half minutes.
MetricTtl == 2

\* Counters the provider may report, in units of 2^20 bytes.
ProbeCounters == {0, 512}

\* part_000:309-317  getLatestServerMetric: ORDER BY timestamp DESC LIMIT 1.
\* The set of rows the query may return; empty when the server has no sample.
getLatestServerMetric(serverId) ==
  {metrics[k] : k \in {k \in 1..Len(metrics) :
     /\ metrics[k].serverId = serverId
     /\ \A q \in 1..Len(metrics) :
          metrics[q].serverId = serverId
            => metrics[q].timestamp <= metrics[k].timestamp}}

\* A freshness test that never finds a sample fresh.
Stale_Always(metric, t) == TRUE

\* routes.ts:830-831  latestMetric.timestamp < new Date(Date.now() - 5 min)
Stale(metric, t) == metric.timestamp < t - MetricTtl

\* routes.ts:787-796  GET /api/servers/:id/metrics/latest: getServer and the
\* ownership test.
StartLatest(r, u, sid) ==
  /\ FreeSlot(r)
  /\ sid \in DOMAIN servers /\ servers[sid].userId = u
  /\ reqs' = [reqs EXCEPT ![r] =
       [IdleReq EXCEPT !.pc = "getLatest", !.kind = "latest", !.userId = u,
                       !.target = sid]]
  /\ UNCHANGED <<balance, initialBalance, applied, servers, nextServerId, txs,
                 teardowns, droplets, volVars, jobs, ticks, tickStart,
                 meterVars, deskVars, probes>>

\* routes.ts:799-801, 829-831, 859  the newest sample is read; a fresh one is
\* the response, a missing or stale one sends the handler to the provider.
ReqGetLatest(r) ==
  /\ reqs[r].pc = "getLatest"
  /\ \/ /\ getLatestServerMetric(reqs[r].target) = {}
        /\ reqs' = [reqs EXCEPT ![r].pc = "getServerMetrics"]
     \/ \E latestMetric \in getLatestServerMetric(reqs[r].target) :
          reqs' = IF Stale(latestMetric, now)
                    THEN [reqs EXCEPT ![r].pc = "getServerMetrics"]
                    ELSE [reqs EXCEPT ![r].pc = "done", ![r].row = latestMetric]
  /\ UNCHANGED <<balance, initialBalance, applied, servers, nextServerId, txs,
                 teardowns, droplets, volVars, jobs, ticks, tickStart,
                 meterVars, deskVars, probes>>

\* routes.ts:803-815 / 833-845  await digitalOcean.getServerMetrics(...); the
\* new sample is stamped with the time at which the provider answered.
ReqGetServerMetrics(r, nin, nout) ==
  /\ reqs[r].pc = "getServerMetrics"
  /\ probes' = probes + 1
  /\ reqs' = [reqs EXCEPT ![r].pc = "createServerMetric",
                          ![r].row = [serverId |-> reqs[r].target,
                                      networkIn |-> nin, networkOut |-> nout,
                                      timestamp |-> now]]
  /\ UNCHANGED <<balance, initialBalance, applied, servers, nextServerId, txs,
                 teardowns, droplets, volVars, jobs, ticks, tickStart,
                 meterVars, deskVars>>

\* routes.ts:818 / 848  await storage.createServerMetric(newMetric)
ReqCreateServerMetric(r) ==
  /\ reqs[r].pc = "createServerMetric"
  /\ metrics' = Append(metrics, reqs[r].row)
  /\ reqs' = [reqs EXCEPT ![r].pc = "updateServer"]
  /\ UNCHANGED <<balance, initialBalance, applied, servers, nextServerId, txs,
                 teardowns, droplets, volVars, jobs, ticks, tickStart,
                 now, ovg, ovgRuns, deskVars, probes>>

\* routes.ts:821-825 / 851-855  await storage.updateServer(serverId,
\* { lastMonitored }); res.json(savedMetric).  lastMonitored is a column no
\* handler reads; the rows of servers keep the columns that are read.
ReqUpdateServer(r) ==
  /\ reqs[r].pc = "updateServer"
  /\ reqs' = [reqs EXCEPT ![r].pc = "done"]
  /\ UNCHANGED <<balance, initialBalance, applied, servers, nextServerId, txs,
                 teardowns, droplets, volVars, jobs, ticks, tickStart,
                 meterVars, deskVars, probes>>

\* Latest-sample requests of the owner of server 1, as time passes.
NextCache ==
  \/ \E r \in ReqIds, u \in SessionUsers, sid \in DOMAIN servers :
       StartLatest(r, u, sid)
  \/ \E r \in ReqIds : ReqGetLatest(r)
  \/ \E r \in ReqIds, nin \in ProbeCounters, nout \in ProbeCounters :
       ReqGetServerMetrics(r, nin, nout)
  \/ \E r \in ReqIds : ReqCreateServerMetric(r)
  \/ \E r \in ReqIds : ReqUpdateServer(r)
  \/ ClockTick

SpecCache == Init /\ [][NextCache]_vars

\* ------------------------------------------------- one operation at a time
\* No handler and no execution of the job is between two of its awaits.
NothingInFlight ==
  /\ NoJobRunning
  /\ \A r \in ReqIds : reqs[r].pc \in {"idle", "done", "rejected", "failed"}

\* Ticks, provisioning requests and captures, each run to completion before
\* the next one starts.
NextSequential ==
  \/ NothingInFlight /\ Fire(1)
  \/ JobStep(1)
  \/ NothingInFlight /\ \E r \in ReqIds : ReqStart(r)
  \/ \E r \in ReqIds : ReqStep(r)

SpecSequential == Init /\ [][NextSequential]_vars

\* ---------------------------------------------------------- support desk
\* serverId: null
NullServer == 0

\* part_000:184-192  createTicket: the row is inserted with status 'open';
\* its id is its place in the table.
createTicket(userId, serverId) ==
  Append(tickets, [userId |-> userId, serverId |-> serverId,
                   status |-> "open"])

\* part_000:199-204  getTicketsByUser: the ids of the tickets of the account
getTicketsByUser(userId) ==
  {t \in 1..Len(tickets) : tickets[t].userId = userId}

\* part_000:206-211  getTicketsByServer: the ids of the tickets of the server
getTicketsByServer(serverId) ==
  {t \in 1..Len(tickets) : tickets[t].serverId = serverId}

\* part_000:219-228  updateTicketStatus
updateTicketStatus(id, status) == [tickets EXCEPT ![id].status = status]

\* part_000:252-260  createMessage
createMessage(ticketId, userId) ==
  Append(messages, [ticketId |-> ticketId, userId |-> userId])

\* routes.ts:462-465  existingTickets.some(ticket => ticket.serverId ===
\* serverId && ticket.status === 'open')
hasOpenTicket(userId, serverId) ==
  \E t \in getTicketsByUser(userId) :
    tickets[t].serverId = serverId /\ tickets[t].status = "open"

\* routes.ts:445-513  POST /api/tickets, answered 201: for a server of the
\* account that has no open ticket of the account, or for no server.  The
\* answers 404 and 400 write nothing.
PostTicket(u, sid) ==
  /\ Len(tickets) < MaxTickets
  /\ Len(messages) < MaxMessages
  /\ \/ sid = NullServer
     \/ /\ sid \in DOMAIN servers /\ servers[sid].userId = u
        /\ ~hasOpenTicket(u, sid)
  /\ tickets' = createTicket(u, sid)
  /\ messages' = createMessage(Len(tickets) + 1, u)
  /\ UNCHANGED <<balance, initialBalance, applied, servers, nextServerId, txs,
                 teardowns, droplets, volVars, jobs, ticks, reqs, tickStart,
                 meterVars, probes>>

\* routes.ts:527-552  POST /api/tickets/:id/messages by the owner of the
\* ticket: the message is stored, and a closed ticket is opened again.
PostMessage(u, tid) ==
  /\ tid \in 1..Len(tickets) /\ tickets[tid].userId = u
  /\ Len(messages) < MaxMessages
  /\ messages' = createMessage(tid, u)
  /\ tickets' = IF tickets[tid].status = "closed"
                  THEN updateTicketStatus(tid, "open") ELSE tickets
  /\ UNCHANGED <<balance, initialBalance, applied, servers, nextServerId, txs,
                 teardowns, droplets, volVars, jobs, ticks, reqs, tickStart,
                 meterVars, probes>>

\* routes.ts:554-569  PATCH /api/tickets/:id/status by the owner of the
\* ticket, to a status other than the one it has.
PatchStatus(u, tid, status) ==
  /\ tid \in 1..Len(tickets) /\ tickets[tid].userId = u
  /\ status \in {"open", "closed"}
  /\ tickets[tid].status # status
  /\ tickets' = updateTicketStatus(tid, status)
  /\ UNCHANGED <<balance, initialBalance, applied, servers, nextServerId, txs,
                 teardowns, droplets, volVars, jobs, ticks, reqs, tickStart,
                 meterVars, messages, probes>>

\* routes.ts:213-234  DELETE /api/servers/:id by the owner: the droplet is
\* torn down, the open tickets of the server lose their serverId
\* (updateTicket, part_000:241-250), and the record is deleted.
DeleteServerRequest(u, sid) ==
  /\ sid \in DOMAIN servers /\ servers[sid].userId = u
  /\ teardowns' = [teardowns EXCEPT ![sid] = @ + 1]
  /\ tickets' = [t \in 1..Len(tickets) |->
                   IF t \in getTicketsByServer(sid) /\ tickets[t].status = "open"
                     THEN [tickets[t] EXCEPT !.serverId = NullServer]
                     ELSE tickets[t]]
  /\ servers' = deleteServer(sid)
  /\ UNCHANGED <<balance, initialBalance, applied, nextServerId, txs,
                 droplets, volVars, jobs, ticks, reqs, tickStart,
                 meterVars, messages, probes>>

\* The desk handlers of account 1, each run to completion, between the
\* steps of the hourly job.
NextDesk ==
  \/ \E u \in SessionUsers, sid \in DOMAIN servers \cup {NullServer} :
       PostTicket(u, sid)
  \/ \E u \in SessionUsers, tid \in 1..MaxTickets : PostMessage(u, tid)
  \/ \E u \in SessionUsers, tid \in 1..MaxTickets,
        status \in {"open", "closed"} : PatchStatus(u, tid, status)
  \/ \E u \in SessionUsers, sid \in DOMAIN servers : DeleteServerRequest(u, sid)
  \/ Fire(1)
  \/ JobStep(1)

SpecDesk == Init /\ [][NextDesk]_vars

\* ------------------------------------------------------------------ faults
\* The storage or provider call handler r is waiting for rejects.  POST
\* /api/servers catches it and answers 400 (routes.ts:208-210); the volume
\* handlers leave the rejection unhandled.  Either way the handler ends there.
ReqFail(r) ==
  /\ reqs[r].pc \in {"checkBalance", "createDroplet", "createServer",
                      "createVolume", "insertVolume", "updateVolume",
                      "updateBalance", "createTransaction"}
  /\ reqs' = [reqs EXCEPT ![r] = [IdleReq EXCEPT !.pc = "failed",
                                                 !.kind = reqs[r].kind,
                                                 !.userId = reqs[r].userId]]
  /\ UNCHANGED <<balance, initialBalance, applied, servers, nextServerId, txs,
                 teardowns, droplets, volVars, jobs, ticks, tickStart,
                 meterVars,
                 deskVars, probes>>

\* The call execution j is waiting for rejects: nothing in
\* deductHourlyServerCosts catches it, so the execution ends there.
JobFail(j) ==
  /\ jobs[j].pc \in {"getUser", "deleteDroplet", "deleteServer",
                      "updateBalance", "createTransaction"}
  /\ jobs' = [jobs EXCEPT ![j].pc = "aborted"]
  /\ UNCHANGED <<balance, initialBalance, applied, servers, nextServerId, txs,
                 teardowns, droplets, volVars, ticks, reqs, tickStart,
                 meterVars,
                 deskVars, probes>>

NextFail ==
  \/ Next
  \/ \E r \in ReqIds : ReqFail(r)
  \/ JobFail(1)

SpecFail == Init /\ [][NextFail]_vars

\* Nothing is in flight: every handler and execution has ended.
Quiescent ==
  /\ \A r \in ReqIds : reqs[r].pc \in {"idle", "done", "rejected", "failed"}
  /\ \A j \in JobIds : jobs[j].pc \in {"idle", "done", "aborted"}

TxsOf(u) == SelectSeq(txs, LAMBDA t : t.userId = u /\ t.status = "completed")

\* C2: whatever single step fails, once the operations have ended every
\* balance delta that was applied has its transaction row and every row its
\* delta: the deltas applied to an account sum to the amounts of its rows.
C2_AllOrNothing ==
  Quiescent => \A u \in Users : applied[u] = SumAmounts(TxsOf(u))

\* C8: when a step for one server fails during a tick, every other server
\* that was present at the start of the tick is still processed: the
\* execution can only end at the last server.
C8_FailureIsolated ==
  \A j \in JobIds :
    jobs[j].pc = "aborted" => jobs[j].i = Len(jobs[j].allServers)

\* ------------------------------------------------- claims about the ledger
\* C1: once the operations on an account have completed, its balance is its
\* initial balance plus the amounts of its completed transactions.
C1_LedgerConsistent ==
  (Quiescent /\ ovg.pc = "idle") =>
    \A u \in Users : balance[u] = initialBalance[u] + SumAmounts(TxsOf(u))

\* The bandwidth_overage transactions of account u created in a month.
OverageTxs(u, month) ==
  {k \in 1..Len(txs) : /\ txs[k].type = "bandwidth_overage"
                        /\ txs[k].userId = u
                        /\ MonthOf(txs[k].createdAt) = month}

\* C10: however often the settlement is invoked within one calendar month,
\* a server gets at most one bandwidth_overage transaction in that month
\* (every account here owns one server, so per account is per server).
C10_OverageOncePerMonth ==
  \A u \in Users : \A month \in 0..MonthOf(MaxTime) :
    Cardinality(OverageTxs(u, month)) <= 1

\* --------------------------------------- claims about the overage charge
\* Usage of the server the settlement is at, in hundredths of a GB above its
\* limit (negative when under it), as getServerBandwidth reports it now.
Over100 ==
  CurrentUsage100(OvgCur.id, now) - BandwidthLimitGB(OvgCur.size) * 100

C12_UnderLimitFree ==
  [][(ovg.pc = "measure" /\ ovg' # ovg /\ Over100 <= 0) =>
       /\ ovg'.pc \in {"measure", "idle"}
       /\ ovg'.cents = 0
       /\ txs' = txs
       /\ balance' = balance]_vars

\* C12 witness: on the last day the first server, exactly at its limit, has
\* been settled and the settlement is at the second one: nothing was billed.
C12_Witness ==
  /\ ovg.pc = "measure" /\ ovg.i = 2
  /\ CurrentUsage100(ovg.active[1].id, now)
       = BandwidthLimitGB(ovg.active[1].size) * 100
  /\ txs = <<>>
  /\ balance = initialBalance

\* The transaction types the charge operations write.
ChargeTypes ==
  {"hourly_server_charge", "server_charge", "volume_charge",
   "volume_resize_charge", "bandwidth_overage"}

\* C13: the transaction a charge operation records has a negative amount,
\* the delta the operation applies to the balance.
C13_ChargeSign ==
  \A k \in 1..Len(txs) : txs[k].type \in ChargeTypes => txs[k].amount < 0

\* ------------------------------------------- claims about deposit captures
\* C14: when the capture fails at the payment collaborator, the handler
\* answers with a failure, the balances are as they were and no transaction
\* is created; a handler that failed there never applied a delta.
C14_FailedCaptureNoEffect ==
  [][\A r \in ReqIds :
       (reqs[r].pc = "idle" /\ reqs'[r].pc = "failed"
          /\ reqs'[r].kind = "deposit") =>
         (balance' = balance /\ txs' = txs /\ applied' = applied)]_vars

\* C14 witness: a capture has failed first thing; nothing has been written.
C14_Witness ==
  /\ reqs[1].pc = "failed" /\ reqs[1].kind = "deposit"
  /\ reqs[2].pc = "idle"
  /\ balance = initialBalance
  /\ txs = <<>>

\* The transaction a capture of `cents` for account u tagged `ref` appends.
DepositTx(u, cents, ref) ==
  [userId |-> u, amount |-> cents, currency |-> "USD", status |-> "completed",
   type |-> "deposit", paypalTransactionId |-> ref, createdAt |-> now]

\* C15: a capture that succeeds for A dollars adds round(A * 100) cents to
\* the balance of the requesting account and appends one completed deposit
\* transaction of that positive amount carrying the payment reference.
C15_CaptureCredits ==
  [][\A r \in ReqIds :
       /\ (reqs[r].pc = "idle" /\ reqs'[r].pc = "updateBalance") =>
            /\ reqs'[r].amount \in {100 * d : d \in CapturedDollars}
            /\ balance' = balance /\ txs' = txs
       /\ (reqs[r].kind = "deposit" /\ reqs[r].pc = "updateBalance"
              /\ reqs'[r].pc = "createTransaction") =>
            /\ balance' = [balance EXCEPT ![reqs[r].userId] =
                                             @ + reqs[r].amount]
            /\ txs' = txs
       /\ (reqs[r].kind = "deposit" /\ reqs[r].pc = "createTransaction"
              /\ reqs'[r].pc = "done") =>
            /\ txs' = Append(txs, DepositTx(reqs[r].userId, reqs[r].amount,
                                            reqs[r].paypalId))
            /\ reqs[r].paypalId \in OrderIds
            /\ balance' = balance]_vars

\* C15 witness: a capture of $20 has completed: 2000 cents more and the
\* deposit transaction, tagged with the order, is the last one written.
C15_Witness ==
  \E r \in ReqIds :
    /\ reqs[r].pc = "done" /\ reqs[r].kind = "deposit"
    /\ reqs[r].amount = 2000
    /\ balance[1] = initialBalance[1] + 2000
    /\ txs = <<DepositTx(1, 2000, "ORDER-A")>>

\* ------------------------------------ claims about the transaction listing
\* C16: the listing of an account holds only that account's transactions,
\* newest first: creation timestamps never increase down the list.
C16_NewestFirst ==
  \A u \in Users : \A l \in ListTransactions(u, 1, MaxPageSize) :
    /\ \A k \in 1..Len(l) : l[k].userId = u
    /\ \A a, b \in 1..Len(l) : a < b => l[a].createdAt >= l[b].createdAt

\* C17: a listing asked for page p with page size n holds at most n items.
C17_PageHoldsAtMostN ==
  \A u \in Users : \A p \in 1..MaxPage : \A n \in 1..MaxPageSize :
    \A l \in ListTransactions(u, p, n) : Len(l) <= n

\* C18: transactions are append-only: whatever step the system takes, every
\* transaction that exists stays where it is with all its fields unchanged,
\* and the table only grows.
C18_AppendOnly ==
  [][/\ Len(txs') >= Len(txs)
     /\ SubSeq(txs', 1, Len(txs)) = txs]_vars

\* C18 witness: a provisioning charge, a deposit and an hourly charge have
\* been written one after another.
C18_Witness ==
  /\ Len(txs) >= 3
  /\ \E a, b, c \in 1..Len(txs) :
       /\ a < b /\ b < c
       /\ txs[a].type = "server_charge"
       /\ txs[b].type = "deposit"
       /\ txs[c].type = "hourly_server_charge"

\* C19: whatever handlers run alongside a tick, the tick tears a server
\* down or deletes its record only while the owner's balance is below 100
\* cents, and applies the hourly charge only while it is at least 100.
C19_DecisionAtomic ==
  [][\A j \in JobIds :
       /\ (jobs[j].pc \in {"deleteDroplet", "deleteServer"}
              /\ jobs'[j] # jobs[j] /\ jobs[j].user.exists) =>
            balance[Cur(j).userId] < 100
       /\ (jobs[j].pc = "updateBalance" /\ jobs'[j] # jobs[j]) =>
            balance[Cur(j).userId] >= 100]_vars

\* C20: when the provider call for one server never returns, the servers
\* after it in the tick are still processed: the execution gets past them.
C20_HungCallDoesNotStall ==
  (jobs[1].pc = "hung" /\ jobs[1].i < Len(jobs[1].allServers))
    ~> (jobs[1].i > Len(jobs[1].allServers))

OnLastDay(t) == (t % MonthLen) >= MonthLen - InstantsPerDay

\* C22: calculateBandwidthOverages invoked on a day that is not the last of
\* the month does nothing; invoked on the last day it walks only rows with
\* status "active"; and no overage is booked or debited except for the row
\* such a walk is at.
C22_LastDayActiveOnly ==
  [][/\ (ovg.pc = "idle" /\ ovgRuns' # ovgRuns)
          => /\ txs' = txs /\ balance' = balance
             /\ ~OnLastDay(now) => ovg' = IdleOvg
             /\ \A k \in 1..Len(ovg'.active) :
                  /\ ovg'.active[k].status = "active"
                  /\ servers[ovg'.active[k].id].status = "active"
     /\ (txs' # txs \/ balance' # balance)
          => /\ ovg.pc \in {"createTransaction", "updateBalance"}
             /\ OvgCur.status = "active"]_vars

\* The settlement was invoked on the first day of the month, with an active
\* server over its limit, and returned without booking anything.
C22_Witness ==
  /\ now = 0
  /\ ovgRuns >= 1
  /\ ovg = IdleOvg
  /\ txs = <<>>
  /\ \E s \in DOMAIN servers :
       /\ servers[s].status = "active"
       /\ OverageDue([id |-> s, userId |-> servers[s].userId,
                      status |-> servers[s].status, size |-> servers[s].size],
                     now) > 0

\* The samples of the server taken at any time of the calendar month of t.
SamplesOfMonth(serverId, t) ==
  SelectSeq(metrics, LAMBDA m : /\ m.serverId = serverId
                                /\ MonthOf(m.timestamp) = MonthOf(t))

\* C23: the usage computed for a server is the sum of the counters of exactly
\* its samples taken during the current calendar month, the last day
\* included, converted to GB.
C23_UsageWindow ==
  \A s \in DOMAIN servers :
    CurrentUsage100(s, now) = RoundDiv(SumNetwork(SamplesOfMonth(s, now)) * 100,
                                       1024)

\* C24: a latest-sample request answers with the stored newest sample, with
\* no provider call and no new sample, when that sample is younger than five
\* minutes; with no sample or one older than five minutes it calls the
\* provider once, stores one sample and answers with it.
C24_ReadThroughCache ==
  [][\A r \in ReqIds :
       /\ (reqs[r].pc = "getLatest" /\ reqs'[r] # reqs[r])
            => /\ probes' = probes /\ metrics' = metrics
               /\ \/ /\ reqs'[r].pc = "done"
                     /\ reqs'[r].row \in getLatestServerMetric(reqs[r].target)
                     /\ now - reqs'[r].row.timestamp <= MetricTtl
                  \/ /\ reqs'[r].pc = "getServerMetrics"
                     /\ \A m \in getLatestServerMetric(reqs[r].target) :
                          now - m.timestamp > MetricTtl
               /\ (\E m \in getLatestServerMetric(reqs[r].target) :
                     now - m.timestamp < MetricTtl) => reqs'[r].pc = "done"
               /\ (\A m \in getLatestServerMetric(reqs[r].target) :
                     now - m.timestamp > MetricTtl)
                     => reqs'[r].pc = "getServerMetrics"
       /\ (reqs[r].pc = "getServerMetrics" /\ reqs'[r] # reqs[r])
            => /\ probes' = probes + 1 /\ metrics' = metrics
               /\ reqs'[r].pc = "createServerMetric"
       /\ (reqs[r].pc = "createServerMetric" /\ reqs'[r] # reqs[r])
            => /\ probes' = probes
               /\ metrics' = Append(metrics, reqs[r].row)
               /\ reqs'[r].pc = "updateServer"
       /\ (reqs[r].pc = "updateServer" /\ reqs'[r] # reqs[r])
            => /\ probes' = probes /\ metrics' = metrics
               /\ reqs'[r].pc = "done"
               /\ reqs'[r].row = reqs[r].row
       /\ (reqs[r].pc = "done" /\ reqs[r].kind = "latest")
            => reqs'[r] = reqs[r]]_vars

\* Two requests were answered: the first found no sample and stored one, the
\* second was answered from the store within the five minutes.
C24_Witness ==
  /\ reqs[1].pc = "done" /\ reqs[1].kind = "latest"
  /\ reqs[2].pc = "done" /\ reqs[2].kind = "latest"
  /\ probes = 1
  /\ Len(metrics) = 1
  /\ reqs[1].row = metrics[1]
  /\ reqs[2].row = metrics[1]
  /\ now > metrics[1].timestamp

\* C25: a server creation, volume creation or volume resize whose account
\* holds less than the cost is rejected at the balance check, and the request
\* calls no provider, writes no server or volume record, books no transaction
\* and changes no balance, at the check or after it.
C25_RejectedWithoutEffect ==
  [][\A r \in ReqIds :
       /\ (reqs[r].pc = "checkBalance" /\ reqs'[r] # reqs[r])
            => /\ balance[reqs[r].userId] < reqs[r].cost
                    => reqs'[r].pc = "rejected"
               /\ reqs'[r].pc = "rejected"
                    => /\ balance' = balance /\ txs' = txs
                       /\ servers' = servers /\ volumes' = volumes
                       /\ droplets' = droplets /\ doVolumes' = doVolumes
       /\ reqs[r].pc = "rejected" => reqs'[r] = reqs[r]]_vars

\* A request for a server was rejected: the account holds less than a dollar.
C25_Witness ==
  \E r \in ReqIds :
    /\ reqs[r].pc = "rejected" /\ reqs[r].kind = "server"
    /\ reqs[r].user.balance < reqs[r].cost
    /\ droplets = 0 /\ nextServerId = 2

\* The requests that have added the payment `ref` to a balance.
CreditedFor(ref) ==
  {r \in ReqIds : /\ reqs[r].kind = "deposit" /\ reqs[r].paypalId = ref
                  /\ reqs[r].pc \in {"createTransaction", "done"}}

\* C26: whatever capture requests were made, each payment reference is on at
\* most one deposit transaction and was added to a balance at most once.
C26_CreditedOncePerPayment ==
  \A ref \in OrderIds :
    /\ Cardinality({k \in 1..Len(txs) :
                      /\ txs[k].type = "deposit"
                      /\ txs[k].paypalTransactionId = ref}) <= 1
    /\ Cardinality(CreditedFor(ref)) <= 1

\* C27: when operations do not interleave, an account that starts with a
\* balance that is not negative never has a negative balance.
C27_SequentialNonNegative ==
  \A u \in Users : initialBalance[u] >= 0 => balance[u] >= 0

\* Charges have taken a balance of 250 below a dollar, and the operation
\* that came next was refused.
C27_Witness ==
  /\ NothingInFlight
  /\ initialBalance[1] = 250
  /\ balance[1] < HourlyCharge
  /\ \E k \in 1..Len(txs) : txs[k].type = "hourly_server_charge"
  /\ \E r \in ReqIds : reqs[r].pc = "rejected"

\* The servers of table tbl that account u owns.
OwnedIn(tbl, u) == {s \in DOMAIN tbl : tbl[s].userId = u}

\* The number of servers an account with b cents and n servers can pay for.
Affordable(n, b) == IF n <= b \div 100 THEN n ELSE b \div 100

\* The hourly transactions of account u written since the tick started.
HourlySince(u) ==
  {k \in (Len(tickStart.txs) + 1)..Len(txs) :
     txs[k].userId = u /\ txs[k].type = "hourly_server_charge"}

\* C28: when a tick that ran alone and without failure has finished, an
\* account that had b cents and n servers has paid for min(n, floor(b/100))
\* of them, with as many hourly transactions, and has lost the others; every
\* server of the start of the tick was charged once or reclaimed.
C28_TickOutcome ==
  jobs[1].pc = "done" =>
    /\ \A u \in Users :
         LET b == tickStart.balance[u]
             n == Cardinality(OwnedIn(tickStart.servers, u))
             k == Affordable(n, b)
         IN /\ balance[u] = b - 100 * k
            /\ Cardinality(HourlySince(u)) = k
            /\ \A t \in HourlySince(u) : txs[t].amount = -100
            /\ Cardinality(OwnedIn(servers, u)) = k
            /\ OwnedIn(servers, u) \subseteq OwnedIn(tickStart.servers, u)
    /\ Len(txs) - Len(tickStart.txs)
         + Cardinality(DOMAIN tickStart.servers \ DOMAIN servers)
         = Cardinality(DOMAIN tickStart.servers)
    /\ \A s \in DOMAIN tickStart.servers \ DOMAIN servers :
         teardowns[s] = tickStart.teardowns[s] + 1

\* An account with 250 cents and three servers, not all of them active, has
\* been through a tick: two servers paid for, one reclaimed, 50 cents left.
C28_Witness ==
  /\ jobs[1].pc = "done"
  /\ tickStart.balance[1] = 250
  /\ Cardinality(OwnedIn(tickStart.servers, 1)) = 3
  /\ \E s \in DOMAIN tickStart.servers : tickStart.servers[s].status = "off"
  /\ balance[1] = 50
  /\ Cardinality(OwnedIn(servers, 1)) = 2

\* C29: an account never has two tickets with status 'open' that reference
\* the same server.
C29_OneOpenTicketPerServer ==
  \A a, b \in 1..Len(tickets) :
    (/\ a # b
     /\ tickets[a].userId = tickets[b].userId
     /\ tickets[a].status = "open" /\ tickets[b].status = "open"
     /\ tickets[a].serverId # NullServer)
    => tickets[a].serverId # tickets[b].serverId

\* C30: every ticket with status 'open' and a serverId references a server
\* that still has a record.
C30_OpenTicketServerExists ==
  \A t \in 1..Len(tickets) :
    (tickets[t].status = "open" /\ tickets[t].serverId # NullServer)
      => tickets[t].serverId \in DOMAIN servers

\* The servers of one account, about to be metered.
InitOverlap ==
  /\ InitTick
  /\ \A s \in DOMAIN servers :
       servers[s].userId = 1 /\ servers[s].status = "active"
  /\ \A u \in Users : u # 1 => balance[u] = 0

SpecOverlap == InitOverlap /\ [][NextOverlap]_vars

\* routes.ts:37  the promise of digitalOcean.deleteDroplet never settles: the
\* await has no timeout, so the execution stays at it.
ProviderHangs(j) ==
  /\ jobs[j].pc = "deleteDroplet"
  /\ jobs' = [jobs EXCEPT ![j].pc = "hung"]
  /\ UNCHANGED <<balance, initialBalance, applied, servers, nextServerId, txs,
                 teardowns, droplets, volVars, ticks, reqs, tickStart,
                 meterVars,
                 deskVars, probes>>

NextHang ==
  \/ Fire(1)
  \/ JobStep(1)
  \/ ProviderHangs(1)

\* Every await of the execution that settles lets it go on: the event loop
\* runs a continuation that is ready.
SpecHang == InitOverlap /\ [][NextHang]_vars /\ WF_vars(JobStep(1))

\* --------------------------------------------- a teardown that is refused
ProviderFails_DropsRecord(j) ==
  /\ jobs[j].pc = "deleteDroplet"
  /\ jobs' = [jobs EXCEPT ![j].pc = "aborted"]
  /\ servers' = RemoveKey(servers, Cur(j).id)
  /\ UNCHANGED <<balance, initialBalance, applied, nextServerId, txs,
                 teardowns, droplets, volVars, ticks, reqs, tickStart,
                 meterVars, deskVars, probes>>

\* routes.ts:37  the promise of digitalOcean.deleteDroplet rejects: the await
\* throws, nothing in deductHourlyServerCosts catches it, and the execution
\* ends before storage.deleteServer on the next line.
ProviderFails(j) ==
  /\ jobs[j].pc = "deleteDroplet"
  /\ jobs' = [jobs EXCEPT ![j].pc = "aborted"]
  /\ UNCHANGED <<balance, initialBalance, applied, servers, nextServerId, txs,
                 teardowns, droplets, volVars, ticks, reqs, tickStart,
                 meterVars, deskVars, probes>>

NextRetry ==
  \/ Fire(1)
  \/ JobStep(1)
  \/ ProviderFails(1)

SpecRetry == InitOverlap /\ [][NextRetry]_vars

\* ------------------------------------- claims about concurrent handlers
Provisioning(r) == reqs[r].kind \in {"server", "volume", "resize"}

\* Handler r has applied its balance delta.
Charged(r) == reqs[r].pc \in {"createTransaction", "done"}

\* C3: whatever the interleaving of hourly charges, provisioning charges and
\* deposit captures, the balance is the starting balance plus every delta
\* that was handed to updateUserBalance: no update is lost.
C3_NoLostUpdate ==
  \A u \in Users : balance[u] = initialBalance[u] + applied[u]

\* C3 witness: a provisioning charge, a deposit and an hourly charge have all
\* been applied to account 1, the provisioning handler having read the
\* balance before the others wrote it.
C3_Witness ==
  \E p, q \in ReqIds :
    /\ reqs[p].kind = "server" /\ Charged(p)
    /\ reqs[q].kind = "deposit" /\ Charged(q)
    /\ jobs[1].pc = "createTransaction"
    /\ reqs[p].user.balance = initialBalance[1]
    /\ jobs[1].user.balance = initialBalance[1]
    /\ balance[1] = initialBalance[1] - 100 + 500 - 100

\* C4: two provisioning requests of one account never both pass the balance
\* check against the same balance, one that covers only one of them, and
\* both get charged.
C4_CheckAndChargeOneUnit ==
  \A p, q \in ReqIds :
    (/\ p # q /\ Provisioning(p) /\ Provisioning(q)
     /\ reqs[p].userId = reqs[q].userId
     /\ Charged(p) /\ Charged(q)
     /\ reqs[p].user.balance = reqs[q].user.balance)
    => reqs[p].user.balance >= reqs[p].cost + reqs[q].cost

\* Execution j of the hourly job is in flight.
Running(j) == jobs[j].pc \notin {"idle", "done"}

\* C7: at most one execution of the hourly job is in flight at any time: a
\* timer firing during an execution starts no second one.
C7_SingleExecution == Cardinality({j \in JobIds : Running(j)}) <= 1

\* ------------------------------------------------ claims about one tick
Last(s) == s[Len(s)]

HourlyTx(userId) ==
  [userId |-> userId, amount |-> -100, currency |-> "USD",
   status |-> "completed", type |-> "hourly_server_charge",
   paypalTransactionId |-> "null", createdAt |-> now]

\* Execution j has just finished the loop body for a server.
JustProcessed(j) == jobs[j].pc \in {"getUser", "done"} /\ jobs[j].i > 1

\* The server whose loop body execution j has just finished.
Prev(j) == jobs[j].allServers[jobs[j].i - 1]

\* The servers execution j has processed so far that still have a record.
ProcessedAlive(j) ==
  {k \in 1..(jobs[j].i - 1) : jobs[j].allServers[k].id \in DOMAIN servers}

\* What the tick running alone from the tables at its start, over the rows
\* in ascending id order, leaves behind.
SortedRows(rows) ==
  CHOOSE p \in Perms({rows[k] : k \in 1..Len(rows)}) :
    \A a, b \in 1..Len(p) : a < b => p[a].id < p[b].id

TxCount(s, r) == Cardinality({k \in 1..Len(s) : s[k] = r})

SameOutcome(a, b) ==
  /\ a.balance = b.balance
  /\ DOMAIN a.servers = DOMAIN b.servers
  /\ Len(a.txs) = Len(b.txs)
  /\ \A k \in 1..Len(a.txs) : TxCount(a.txs, a.txs[k]) = TxCount(b.txs, a.txs[k])

\* The step-by-step execution and the run-to-completion operator agree.
TickMatchesRun ==
  jobs[1].pc = "done" => Tables = RunTick(jobs[1].allServers, tickStart)

\* C5: a server whose owner has at least 100 cents when the tick processes it
\* costs the owner exactly 100 cents, gets exactly one completed
\* hourly_server_charge transaction of -100, and keeps its record.
C5_SolventServerCharged ==
  \A j \in JobIds :
    (JustProcessed(j) /\ jobs[j].user.exists /\ jobs[j].user.balance >= 100) =>
      /\ balance[Prev(j).userId] = jobs[j].user.balance - 100
      /\ Prev(j).id \in DOMAIN servers
      /\ txs # <<>> /\ Last(txs) = HourlyTx(Prev(j).userId)
      /\ Len(txs) = Len(tickStart.txs) + Cardinality(ProcessedAlive(j))

\* C5 witness: an owner with exactly 100 cents has just been charged.
C5_Witness ==
  \E j \in JobIds :
    /\ JustProcessed(j) /\ jobs[j].user.exists /\ jobs[j].user.balance = 100
    /\ balance[Prev(j).userId] = 0
    /\ Prev(j).id \in DOMAIN servers

\* C6: a server whose owner has less than 100 cents, or no user row, when the
\* tick processes it is torn down at the provider exactly once, loses its
\* record, gets no transaction, and the owner's balance stays as it was.
C6_InsolventServerReclaimed ==
  \A j \in JobIds :
    (JustProcessed(j) /\ (~jobs[j].user.exists \/ jobs[j].user.balance < 100)) =>
      /\ Prev(j).id \notin DOMAIN servers
      /\ teardowns[Prev(j).id] = tickStart.teardowns[Prev(j).id] + 1
      /\ jobs[j].user.exists => balance[Prev(j).userId] = jobs[j].user.balance
      /\ Len(txs) = Len(tickStart.txs) + Cardinality(ProcessedAlive(j))
      /\ \A k \in (Len(tickStart.txs) + 1)..Len(txs) : txs[k].amount = -100

\* C6 witness: an owner with 50 cents has just had a server reclaimed.
C6_Witness ==
  \E j \in JobIds :
    /\ JustProcessed(j) /\ jobs[j].user.exists /\ jobs[j].user.balance = 50
    /\ Prev(j).id \notin DOMAIN servers
    /\ teardowns[Prev(j).id] = 1
    /\ balance[Prev(j).userId] = 50

\* C9: the tables a tick leaves behind (surviving servers, balances, the
\* multiset of transactions) do not depend on the order in which the tick
\* processed the servers: they are what ascending id order leaves behind.
C9_OrderIndependent ==
  jobs[1].pc = "done" =>
    SameOutcome(Tables, RunTick(SortedRows(jobs[1].allServers), tickStart))

====
